---- MODULE Spec2Model ----
(***************************************************************************)
(* Drey CLI (dreynow/cli): the submission dispatcher, the history buffer   *)
(* and the suggestion matcher of src/drey_cli/main.py, with the assistant  *)
(* client of src/drey_cli/ai_helper.py.                                    *)
(*                                                                         *)
(* A Python str is modelled as a sequence of one-character strings, so     *)
(* that strip, lower, startswith, slicing and `in` are computed character  *)
(* by character as the code computes them.                                 *)
(***************************************************************************)
EXTENDS Integers, Sequences, FiniteSets, TLC

\* ------------------------------------------------------------------ bounds
\* User actions (typing, Enter, Up, Down) in one run of Spec.
MaxUser == 4
\* User actions in one run of SpecSubmit.
MaxSubmitUser == 2
\* Up/Down key presses in one run of SpecRecall.
MaxRecall == 6
\* Edits of the input's text in one run of SpecMatch.
MaxMatch == 2
\* Output lines one child process writes.
MaxChildLines == 1

MaxAsk == 4

MaxCd == 4

\* ------------------------------------------------------------------ constants of the program
\* load_history keeps the last 500 lines of the history file.
HISTORY_IMPORT_LINES == 500
\* update_suggestions searches the 50 most recent history entries ...
HISTORY_SEARCH == 50
\* ... and shows the first 8 matches.
MAX_SUGGESTIONS == 8

\* ------------------------------------------------------------------ str
Min(a, b) == IF a < b THEN a ELSE b

Max(a, b) == IF a < b THEN b ELSE a

EMPTY == << >>

UPPER == <<"A","B","C","D","E","F","G","H","I","J","K","L","M",
           "N","O","P","Q","R","S","T","U","V","W","X","Y","Z">>

LOWER == <<"a","b","c","d","e","f","g","h","i","j","k","l","m",
           "n","o","p","q","r","s","t","u","v","w","x","y","z">>

\* str.lower() on one character.
UpperSet == { UPPER[i] : i \in DOMAIN UPPER }

LowerChar(c) ==
    IF c \in UpperSet
    THEN LOWER[CHOOSE i \in DOMAIN UPPER : UPPER[i] = c]
    ELSE c

\* str.lower()
lower(s) == [i \in DOMAIN s |-> LowerChar(s[i])]

\* The characters str.strip() removes.
IsSpace(c) == c \in {" ", "\t", "\n"}

RECURSIVE lstrip(_)
lstrip(s) == IF s # EMPTY /\ IsSpace(Head(s)) THEN lstrip(Tail(s)) ELSE s

RECURSIVE rstrip(_)
rstrip(s) ==
    IF s # EMPTY /\ IsSpace(s[Len(s)]) THEN rstrip(SubSeq(s, 1, Len(s) - 1)) ELSE s

\* str.strip()
strip(s) == rstrip(lstrip(s))

\* s.startswith(p)
startswith(s, p) == Len(s) >= Len(p) /\ SubSeq(s, 1, Len(p)) = p

\* s[n:]
from(s, n) == SubSeq(s, n + 1, Len(s))

\* s[-n:]
last(s, n) == SubSeq(s, Max(1, Len(s) - n + 1), Len(s))

\* s[:n]
first(s, n) == SubSeq(s, 1, Min(n, Len(s)))

\* sub in s, for strings
contains(s, sub) ==
    \E i \in 0..(Len(s) - Len(sub)) : \A j \in 1..Len(sub) : s[i + j] = sub[j]

\* x in list
member(list, x) == \E i \in DOMAIN list : list[i] = x

\* reversed(list)
reversed(list) == [i \in DOMAIN list |-> list[Len(list) + 1 - i]]

\* s.split(sep) for a one-character separator
RECURSIVE split(_, _)
split(s, sep) ==
    IF \E i \in DOMAIN s : s[i] = sep
    THEN LET i == CHOOSE k \in DOMAIN s : s[k] = sep /\ \A j \in 1..(k - 1) : s[j] # sep
         IN  <<SubSeq(s, 1, i - 1)>> \o split(from(s, i), sep)
    ELSE <<s>>

\* ------------------------------------------------------------------ the catalog
COMMAND_SUGGESTIONS_git ==
    << <<"g","i","t"," ","s","t","a","t","u","s">>,
       <<"g","i","t"," ","a","d","d"," ",".">>,
       <<"g","i","t"," ","c","o","m","m","i","t"," ","-","m"," ","'","'">>,
       <<"g","i","t"," ","p","u","s","h">>,
       <<"g","i","t"," ","p","u","l","l">>,
       <<"g","i","t"," ","l","o","g"," ","-","-","o","n","e","l","i","n","e">>,
       <<"g","i","t"," ","b","r","a","n","c","h">>,
       <<"g","i","t"," ","c","h","e","c","k","o","u","t">> >>

COMMAND_SUGGESTIONS_docker ==
    << <<"d","o","c","k","e","r"," ","p","s">>,
       <<"d","o","c","k","e","r"," ","p","s"," ","-","a">>,
       <<"d","o","c","k","e","r"," ","i","m","a","g","e","s">>,
       <<"d","o","c","k","e","r"," ","c","o","m","p","o","s","e"," ","u","p"," ","-","d">>,
       <<"d","o","c","k","e","r"," ","c","o","m","p","o","s","e"," ","d","o","w","n">>,
       <<"d","o","c","k","e","r"," ","l","o","g","s">>,
       <<"d","o","c","k","e","r"," ","e","x","e","c"," ","-","i","t">> >>

COMMAND_SUGGESTIONS_system ==
    << <<"h","t","o","p">>,
       <<"d","f"," ","-","h">>,
       <<"f","r","e","e"," ","-","h">>,
       <<"u","n","a","m","e"," ","-","a">>,
       <<"u","p","t","i","m","e">>,
       <<"w","h","o","a","m","i">>,
       <<"p","w","d">>,
       <<"l","s"," ","-","l","a">> >>

COMMAND_SUGGESTIONS_network ==
    << <<"i","p"," ","a","d","d","r">>,
       <<"p","i","n","g">>,
       <<"c","u","r","l">>,
       <<"w","g","e","t">>,
       <<"n","e","t","s","t","a","t"," ","-","t","u","l","p","n">>,
       <<"s","s"," ","-","t","u","l","p","n">> >>

COMMAND_SUGGESTIONS_files ==
    << <<"l","s"," ","-","l","a">>,
       <<"f","i","n","d"," ","."," ","-","n","a","m","e">>,
       <<"g","r","e","p"," ","-","r">>,
       <<"c","a","t">>,
       <<"h","e","a","d">>,
       <<"t","a","i","l"," ","-","f">>,
       <<"c","h","m","o","d">>,
       <<"c","h","o","w","n">> >>

COMMAND_SUGGESTIONS_process ==
    << <<"p","s"," ","a","u","x">>,
       <<"k","i","l","l">>,
       <<"k","i","l","l","a","l","l">>,
       <<"t","o","p">>,
       <<"h","t","o","p">>,
       <<"p","g","r","e","p">>,
       <<"p","k","i","l","l">> >>

QUICK_SUGGESTIONS ==
    << << <<"f","i","n","d"," ","l","a","r","g","e"," ","f","i","l","e","s">>,
          <<"f","i","n","d"," ","."," ","-","t","y","p","e"," ","f"," ","-","s","i","z","e"," ","+","1","0","0","M"," ","-","e","x","e","c"," ","l","s"," ","-","l","h"," ","{","}"," ","\\",";">> >>,
       << <<"d","i","s","k"," ","u","s","a","g","e">>,
          <<"d","u"," ","-","s","h"," ","*","/"," ","|"," ","s","o","r","t"," ","-","r","h"," ","|"," ","h","e","a","d"," ","-","2","0">> >>,
       << <<"m","e","m","o","r","y"," ","u","s","a","g","e">>,
          <<"f","r","e","e"," ","-","h"," ","&","&"," ","e","c","h","o"," ","'","-","-","-","'"," ","&","&"," ","p","s"," ","a","u","x"," ","-","-","s","o","r","t","=","-","%","m","e","m"," ","|"," ","h","e","a","d"," ","-","1","0">> >>,
       << <<"c","p","u"," ","u","s","a","g","e">>,
          <<"t","o","p"," ","-","b","n","1"," ","|"," ","h","e","a","d"," ","-","2","0">> >>,
       << <<"r","u","n","n","i","n","g"," ","p","r","o","c","e","s","s","e","s">>,
          <<"p","s"," ","a","u","x"," ","-","-","s","o","r","t","=","-","%","c","p","u"," ","|"," ","h","e","a","d"," ","-","2","0">> >>,
       << <<"l","i","s","t","e","n","i","n","g"," ","p","o","r","t","s">>,
          <<"s","s"," ","-","t","u","l","p","n">> >>,
       << <<"d","o","c","k","e","r"," ","r","u","n","n","i","n","g">>,
          <<"d","o","c","k","e","r"," ","p","s"," ","-","-","f","o","r","m","a","t"," ","'","t","a","b","l","e"," ","{","{",".","N","a","m","e","s","}","}","\t","{","{",".","S","t","a","t","u","s","}","}","\t","{","{",".","P","o","r","t","s","}","}","'">> >>,
       << <<"d","o","c","k","e","r"," ","l","o","g","s">>,
          <<"d","o","c","k","e","r"," ","l","o","g","s"," ","-","-","t","a","i","l"," ","1","0","0"," ","-","f"," ","C","O","N","T","A","I","N","E","R","_","N","A","M","E">> >>,
       << <<"g","i","t"," ","s","t","a","t","u","s">>,
          <<"g","i","t"," ","s","t","a","t","u","s"," ","-","s","b">> >>,
       << <<"g","i","t"," ","l","o","g">>,
          <<"g","i","t"," ","l","o","g"," ","-","-","o","n","e","l","i","n","e"," ","-","-","g","r","a","p","h"," ","-","2","0">> >>,
       << <<"f","i","n","d"," ","t","e","x","t"," ","i","n"," ","f","i","l","e","s">>,
          <<"g","r","e","p"," ","-","r","n"," ","'","S","E","A","R","C","H","_","T","E","R","M","'"," ",".">> >>,
       << <<"w","a","t","c","h"," ","f","i","l","e"," ","c","h","a","n","g","e","s">>,
          <<"w","a","t","c","h"," ","-","n"," ","1"," ","'","l","s"," ","-","l","a","'">> >>,
       << <<"s","y","s","t","e","m"," ","i","n","f","o">>,
          <<"u","n","a","m","e"," ","-","a"," ","&","&"," ","l","s","b","_","r","e","l","e","a","s","e"," ","-","a">> >>,
       << <<"n","e","t","w","o","r","k"," ","i","n","f","o">>,
          <<"i","p"," ","a","d","d","r"," ","s","h","o","w"," ","&","&"," ","e","c","h","o"," ","'","-","-","-","'"," ","&","&"," ","i","p"," ","r","o","u","t","e">> >>,
       << <<"k","i","l","l"," ","p","r","o","c","e","s","s">>,
          <<"p","k","i","l","l"," ","-","f"," ","P","R","O","C","E","S","S","_","N","A","M","E"," "," ","#"," ","o","r",":"," ","k","i","l","l"," ","-","9"," ","P","I","D">> >>,
       << <<"c","o","m","p","r","e","s","s"," ","f","o","l","d","e","r">>,
          <<"t","a","r"," ","-","c","z","v","f"," ","a","r","c","h","i","v","e",".","t","a","r",".","g","z"," ","F","O","L","D","E","R","/">> >>,
       << <<"e","x","t","r","a","c","t"," ","a","r","c","h","i","v","e">>,
          <<"t","a","r"," ","-","x","z","v","f"," ","a","r","c","h","i","v","e",".","t","a","r",".","g","z">> >>,
       << <<"f","i","l","e"," ","p","e","r","m","i","s","s","i","o","n","s">>,
          <<"c","h","m","o","d"," ","7","5","5"," ","F","I","L","E"," "," ","#"," ","r","w","x","r","-","x","r","-","x">> >>,
       << <<"c","h","a","n","g","e"," ","o","w","n","e","r">>,
          <<"c","h","o","w","n"," ","u","s","e","r",":","g","r","o","u","p"," ","F","I","L","E">> >>,
       << <<"c","r","o","n"," ","j","o","b","s">>,
          <<"c","r","o","n","t","a","b"," ","-","l"," "," ","#"," ","l","i","s","t"," ","|"," ","c","r","o","n","t","a","b"," ","-","e"," "," ","#"," ","e","d","i","t">> >> >>

\* ALL_COMMANDS: the categories concatenated in the dict's order.
ALL_COMMANDS ==
    COMMAND_SUGGESTIONS_git \o COMMAND_SUGGESTIONS_docker \o COMMAND_SUGGESTIONS_system
    \o COMMAND_SUGGESTIONS_network \o COMMAND_SUGGESTIONS_files \o COMMAND_SUGGESTIONS_process

\* get_quick_suggestion: the command of the first key that is in the lowered
\* query, or whose words are all in it; NoQuick when there is none.
NoQuick == <<"None">>

KeyMatches(key, query_lower) ==
    \/ contains(query_lower, key)
    \/ \A w \in { split(key, " ")[i] : i \in DOMAIN split(key, " ") } :
          contains(query_lower, w)

\* Mutant: only a key that is in the query as a whole is found.
get_quick_suggestionWholeKey(query) ==
    LET query_lower == lower(query)
        hits == { i \in DOMAIN QUICK_SUGGESTIONS :
                    contains(query_lower, QUICK_SUGGESTIONS[i][1]) }
    IN  IF hits = {} THEN NoQuick
        ELSE QUICK_SUGGESTIONS[CHOOSE i \in hits : \A j \in hits : i <= j][2]

get_quick_suggestion(query) ==
    LET query_lower == lower(query)
        hits == { i \in DOMAIN QUICK_SUGGESTIONS : KeyMatches(QUICK_SUGGESTIONS[i][1], query_lower) }
    IN  IF hits = {} THEN NoQuick
        ELSE QUICK_SUGGESTIONS[CHOOSE i \in hits : \A j \in hits : i <= j][2]

\* ------------------------------------------------------------------ literals of the dispatcher
S_QUESTION == <<"?">>

S_ASK == <<"/","a","s","k"," ">>

S_CD == <<"c","d"," ">>

S_CLEAR == <<"c","l","e","a","r">>

S_EXIT == <<"e","x","i","t">>

S_QUIT == <<"q","u","i","t">>

S_TILDE == <<"~">>

S_TILDE_SLASH == <<"~","/">>

\* ------------------------------------------------------------------ CommandInput
\* load_history: the stripped, non-blank lines among the last 500 lines of the
\* history file; NoFile when ~/.bash_history does not exist.
NoFile == <<"no file">>

\* Mutant: the whole file is kept, not its last 500 lines.
load_historyWholeFile(file) ==
    IF file = NoFile THEN << >>
    ELSE SelectSeq([i \in DOMAIN file |-> strip(file[i])], LAMBDA line : line # EMPTY)

load_history(file) ==
    IF file = NoFile THEN << >>
    ELSE LET tail == last(file, HISTORY_IMPORT_LINES)
             stripped == [i \in DOMAIN tail |-> strip(tail[i])]
         IN  SelectSeq(stripped, LAMBDA line : line # EMPTY)

\* Mutant: the index counts from the oldest entry.
RecalledFromFront(hist, index) == hist[index + 1]

\* history[-(history_index + 1)]
Recalled(hist, index) == hist[Len(hist) - index]

\* ------------------------------------------------------------------ on_input_submitted
\* Mutant: "/ask " is matched case-sensitively.
ClassifyCaseSensitive(command) ==
    IF startswith(command, S_QUESTION) \/ startswith(command, S_ASK)
    THEN LET query == strip(from(command, IF startswith(command, S_QUESTION) THEN 1 ELSE 5))
         IN  IF query # EMPTY THEN [run |-> "ask_ai", arg |-> query]
                              ELSE [run |-> "none", arg |-> EMPTY]
    ELSE [run |-> "run_command", arg |-> command]

\* What the handler awaits for a stripped, non-empty command.
Classify(command) ==
    IF startswith(command, S_QUESTION)
    THEN LET query == strip(from(command, 1))
         IN  IF query # EMPTY THEN [run |-> "ask_ai", arg |-> query]
                              ELSE [run |-> "none", arg |-> EMPTY]
    ELSE IF startswith(lower(command), S_ASK)
    THEN LET query == strip(from(command, 5))
         IN  IF query # EMPTY THEN [run |-> "ask_ai", arg |-> query]
                              ELSE [run |-> "none", arg |-> EMPTY]
    ELSE [run |-> "run_command", arg |-> command]

\* Mutant: "cd " is matched in any case.
BuiltInAnyCase(command) ==
    IF startswith(lower(command), S_CD) THEN "cd"
    ELSE IF command = S_CLEAR THEN "clear"
    ELSE IF command = S_EXIT \/ command = S_QUIT THEN "exit"
    ELSE "external"

\* The branch run_command takes.
BuiltIn(command) ==
    IF startswith(command, S_CD) THEN "cd"
    ELSE IF command = S_CLEAR THEN "clear"
    ELSE IF command = S_EXIT \/ command = S_QUIT THEN "exit"
    ELSE "external"

\* ------------------------------------------------------------------ cd
\* The user's home directory and the directories that exist.
HOME == <<"/","h">>

ROOT == <<"/">>

Dirs == {ROOT, HOME, <<"/","h","/","w">>}

\* path == "~" and path.startswith("~/"): os.path.expanduser
expanduser(path) ==
    IF path = S_TILDE THEN HOME
    ELSE IF startswith(path, S_TILDE_SLASH) THEN HOME \o from(path, 1)
    ELSE path

\* os.chdir(path) raises unless the directory exists.
chdir_ok(path) == path \in Dirs

\* ------------------------------------------------------------------ AIAssistant.ask
\* A fixed message is written as its runs of characters between line breaks.
NOT_CONFIGURED ==
    << <<"AI not configured. Set ANTHROPIC_API_KEY environment variable.", "\n">>,
       <<"\n", "To set it up:", "\n">>,
       <<"  export ANTHROPIC_API_KEY='your-api-key'", "\n">>,
       <<"\n", "Get your API key from: https://console.anthropic.com/", "\n">> >>

\* str(response.status_code)
StatusText(status) ==
    CASE status = 200 -> "200" [] status = 401 -> "401" [] status = 500 -> "500"
      [] OTHER -> "status"

API_ERROR(status, body) == <<"API Error: ", StatusText(status), "\n">> \o body \o <<"\n">>

TIMED_OUT == <<"Request timed out. Please try again.", "\n">>

NO_CONNECT == <<"Could not connect to AI service. Check your internet connection.", "\n">>

OTHER_ERROR == <<"Error: ", "str(e)", "\n">>

\* The chunks the loop over response.aiter_lines() yields. A line is
\*   [data |-> whether it starts with "data: ",
\*    payload |-> "done" ([DONE]), "malformed" (json.loads raises),
\*                "nonobject" (JSON that is no object: event.get raises),
\*                "delta" (content_block_delta with delta.text),
\*                "delta_notext" (content_block_delta without text),
\*                "other" (another type),
\*    text |-> delta.text]
\* and `ending` is how the body ends after its last line.
RECURSIVE StreamChunks(_, _)
StreamChunks(lines, ending) ==
    IF lines = << >>
    THEN CASE ending = "eof" -> << >>
           [] ending = "timeout" -> <<TIMED_OUT>>
           [] ending = "connect" -> <<NO_CONNECT>>
           [] OTHER -> <<OTHER_ERROR>>
    ELSE LET line == Head(lines)
         IN  IF ~line.data THEN StreamChunks(Tail(lines), ending)
             ELSE CASE line.payload = "done" -> << >>
                    [] line.payload = "malformed" -> StreamChunks(Tail(lines), ending)
                    [] line.payload = "nonobject" -> <<OTHER_ERROR>>
                    [] line.payload = "delta" -> <<line.text>> \o StreamChunks(Tail(lines), ending)
                    [] OTHER -> StreamChunks(Tail(lines), ending)

\* Whether ask(question) issues its request: client.stream("POST", ...) is
\* reached only past the return that ends the branch of the missing key.
Requested(api_key) == api_key

\* No answer: no request was made.
NoResponse ==
    [failure |-> "no request", status |-> 0, body |-> << >>, ending |-> "eof",
     lines |-> << >>]

\* Mutant: the key is not checked; the request is made without one.
askNoKeyCheck(api_key, response) ==
    IF response.failure = "connect" THEN <<NO_CONNECT>>
    ELSE IF response.failure = "timeout" THEN <<TIMED_OUT>>
    ELSE IF response.status # 200 THEN <<API_ERROR(response.status, response.body)>>
    ELSE StreamChunks(response.lines, response.ending)

\* The chunks ask(question) yields, given whether the key is set and what the
\* service answers: [failure, status, body, lines, ending], where failure is
\* "connect" or "timeout" when the request fails before any response.
ask(api_key, response) ==
    IF ~api_key THEN NOT_CONFIGURED
    ELSE IF response.failure = "connect" THEN <<NO_CONNECT>>
    ELSE IF response.failure = "timeout" THEN <<TIMED_OUT>>
    ELSE IF response.status # 200 THEN <<API_ERROR(response.status, response.body)>>
    ELSE StreamChunks(response.lines, response.ending)

\* ------------------------------------------------------------------ inputs
L_BLANK == <<" "," ">>

L_QUESTION == <<"?">>

L_AI == <<"?"," "," ","p","s"," ">>

L_ASK == <<"/","A","S","K"," ","g","i","t"," ","l","o","g">>

L_CD_HOME == <<"c","d"," ","~">>

L_CD_BAD == <<"c","d"," ","/","n","o","p","e">>

L_CLEAR == <<"c","l","e","a","r">>

L_EXIT == <<"e","x","i","t">>

L_QUIT == <<"q","u","i","t">>

L_LS == <<" ","l","s">>

L_CD_UPPER == <<"C","D"," ","~">>

L_HTOP == <<"h","t","o","p">>

L_AI_WORDS == <<"?"," ","l","o","g"," ","o","f"," ","G","I","T">>

L_AI_TWO == <<"?"," ","g","i","t"," ","s","t","a","t","u","s"," ","l","o","g">>

L_CD_SUB == <<"c","d"," ","~","/","n","o","p","e">>

T_G == <<"g">>

T_GIT_UPPER == <<"G","I","T">>

T_QG == <<"?","g">>

T_ZZ == <<"z","z">>

T_DO == <<"d","o">>

T_OLD == <<"o","l","d">>

T_LS == <<"l","s">>

H_LS == <<"l","s">>

H_GIT_STATUS == <<" ","g","i","t"," ","s","t","a","t","u","s"," ">>

H_SUDO1 == <<"s","u","d","o"," ","d","o","c","k","e","r"," ","p","s">>

H_SUDO2 == <<"s","u","d","o"," ","d","o","c","k","e","r"," ","r","m"," ","x">>

H_OLD == <<"m","a","k","e"," ","o","l","d">>

H_CAT == <<"c","a","t"," ","x">>

H_PWD == <<"p","w","d">>

H_MYHTOP == <<"h","t","o","p">>

D_HI == <<"h","i">>

D_AB == <<"a","\n","b">>

O_HI == <<"h","i","\n">>

O_TAB == <<"x"," ","\t","\n">>
\* Lines the user submits: blank, the AI forms, the built-ins, shell commands.
Lines ==
    { L_BLANK, L_QUESTION, L_AI, L_ASK, L_CD_HOME, L_CD_BAD, L_CLEAR, L_EXIT, L_QUIT,
      L_LS, L_CD_UPPER, L_HTOP }

\* One line of each kind: "?" alone, AI, the built-ins, a shell command.
DispatchLines == { L_QUESTION, L_AI, L_CD_HOME, L_CLEAR, L_EXIT, L_LS }

\* Texts typed to look for suggestions.
MatchTexts == { T_G, T_GIT_UPPER, T_QG, T_ZZ, T_DO, T_OLD, T_LS, L_HTOP, L_CD_HOME }

Texts == Lines \cup MatchTexts

\* History files: two lines; a short one with blank lines and repeats; one of 502
\* lines whose last 500 are non-blank.
SHORT_FILE == <<H_LS, L_BLANK, H_GIT_STATUS, H_LS, H_MYHTOP>>

TWO_LINE_FILE == <<H_PWD, H_CAT>>

LONG_FILE ==
    [i \in 1..(HISTORY_IMPORT_LINES + 2) |->
        IF i = 1 THEN H_CAT
        ELSE IF i = 2 THEN H_PWD
        ELSE IF i = HISTORY_IMPORT_LINES + 2 - HISTORY_SEARCH THEN H_OLD
        ELSE IF i = HISTORY_IMPORT_LINES THEN H_SUDO1
        ELSE IF i = HISTORY_IMPORT_LINES + 1 THEN H_SUDO2
        ELSE H_LS]

HistoryFiles == { NoFile, TWO_LINE_FILE, SHORT_FILE, LONG_FILE }

\* Answers of the assistant service.
R_STREAM ==
    [failure |-> "none", status |-> 200, body |-> << >>, ending |-> "eof",
     lines |-> << [data |-> FALSE, payload |-> "other", text |-> EMPTY],
                  [data |-> TRUE, payload |-> "delta", text |-> D_AB],
                  [data |-> TRUE, payload |-> "malformed", text |-> EMPTY],
                  [data |-> TRUE, payload |-> "delta", text |-> D_HI],
                  [data |-> TRUE, payload |-> "done", text |-> EMPTY],
                  [data |-> TRUE, payload |-> "delta", text |-> D_HI] >>]

R_500 ==
    [failure |-> "none", status |-> 500, body |-> <<"overloaded">>, ending |-> "eof",
     lines |-> << >>]

\* A frame that is JSON but no object, between two deltas.
R_NONOBJECT ==
    [failure |-> "none", status |-> 200, body |-> << >>, ending |-> "eof",
     lines |-> << [data |-> TRUE, payload |-> "delta", text |-> D_HI],
                  [data |-> TRUE, payload |-> "nonobject", text |-> EMPTY],
                  [data |-> TRUE, payload |-> "delta", text |-> D_AB] >>]

Responses == { R_STREAM, R_500, R_NONOBJECT }

\* Lines a child process writes, and the exit codes it returns.
ChildLines == { O_TAB }

ExitCodes == { 0, 2 }

\* ------------------------------------------------------------------ update_suggestions
\* for hist_cmd in reversed(history[-50:]): append the ones that match and are
\* not yet in matches.
RECURSIVE AddHistory(_, _, _)
AddHistory(matches, hist, text_lower) ==
    IF hist = << >> THEN matches
    ELSE LET hist_cmd == Head(hist)
         IN  IF contains(lower(hist_cmd), text_lower) /\ ~member(matches, hist_cmd)
             THEN AddHistory(Append(matches, hist_cmd), Tail(hist), text_lower)
             ELSE AddHistory(matches, Tail(hist), text_lower)

\* cmd.lower() for every cmd of ALL_COMMANDS
ALL_COMMANDS_lower == [i \in DOMAIN ALL_COMMANDS |-> lower(ALL_COMMANDS[i])]

\* for cmd in ALL_COMMANDS: if text_lower in cmd.lower(): matches.append(cmd)
RECURSIVE CatalogFrom(_, _)
CatalogFrom(i, text_lower) ==
    IF i > Len(ALL_COMMANDS) THEN << >>
    ELSE (IF contains(ALL_COMMANDS_lower[i], text_lower) THEN <<ALL_COMMANDS[i]>> ELSE << >>)
         \o CatalogFrom(i + 1, text_lower)

\* The catalog matches of the texts the user enters, computed once.
CatalogOfTexts == [t \in { lower(x) : x \in Texts } |-> CatalogFrom(1, t)]

CatalogMatches(text_lower) ==
    IF text_lower \in DOMAIN CatalogOfTexts THEN CatalogOfTexts[text_lower]
    ELSE CatalogFrom(1, text_lower)

\* Mutant: the history is searched oldest first.
MatchesOldestFirst(text, hist) ==
    LET text_lower == lower(text)
    IN  AddHistory(CatalogMatches(text_lower), last(hist, HISTORY_SEARCH), text_lower)

Matches(text, hist) ==
    LET text_lower == lower(text)
    IN  AddHistory(CatalogMatches(text_lower),
                   reversed(last(hist, HISTORY_SEARCH)), text_lower)

\* if not text or text.startswith("?"): no suggestions
Suppressed(text) == text = EMPTY \/ startswith(text, S_QUESTION)

\* The list view's items, its "visible" class and current_suggestions after
\* update_suggestions(text).
update_suggestions(text, hist, current) ==
    IF Suppressed(text)
    THEN [items |-> << >>, visible |-> FALSE, current |-> current]
    ELSE LET matches == Matches(text, hist)
         IN  IF matches # << >>
             THEN [items |-> first(matches, MAX_SUGGESTIONS), visible |-> TRUE,
                   current |-> first(matches, MAX_SUGGESTIONS)]
             ELSE [items |-> << >>, visible |-> FALSE, current |-> current]

\* ------------------------------------------------------------------ state
VARIABLES
    history,              \* CommandInput.history
    history_index,        \* CommandInput.history_index (-1: not recalling)
    value,                \* the input's text
    suggestions,          \* the items of the suggestions list view
    visible,              \* whether the list view has the class "visible"
    current_suggestions,  \* DreyCLI.current_suggestions
    cwd,                  \* DreyCLI.cwd
    api_key,              \* whether AIAssistant.api_key is set
    output,               \* what has been written to the output log
    queue,                \* the app's messages not yet handled, oldest first
    sessions,             \* the runs (ask_ai, external command) in progress
    exited,               \* whether self.exit() was called
    started,              \* log: the submissions whose handler has started, with
                          \*      what it ran and whether a run was in progress
    completed,            \* log: the handlers that have returned, with the exit
                          \*      code and the cursor and list as they found them
    imported,             \* log: the history load_history produced
    asked,                \* log: the calls of AIAssistant.ask, with what was sent and
                          \*      the chunks it yields
    lastText,             \* log: the argument of the last update_suggestions
    nav,                  \* log: the Up and Down presses since the cursor was fresh
    nUser                 \* user actions taken so far

vars ==
    << history, history_index, value, suggestions, visible, current_suggestions, cwd,
       api_key, output, queue, sessions, exited, started, completed, imported, asked,
       lastText, nav, nUser >>

inputVars == << history, history_index, value, nav >>

listVars == << suggestions, visible, current_suggestions, lastText >>

logVars == << started, completed >>

NoText == <<"no text">>

FRESH == [phase |-> "fresh", k |-> 0, j |-> 0]

InitWith(files) ==
    /\ \E file \in files :
          /\ history = load_history(file)
          /\ imported = load_history(file)
    /\ history_index = -1
    /\ value = EMPTY
    /\ suggestions = << >>
    /\ visible = FALSE
    /\ current_suggestions = << >>
    /\ cwd = ROOT
    /\ api_key \in BOOLEAN
    /\ output = << >>
    /\ queue = << >>
    /\ sessions = {}
    /\ exited = FALSE
    /\ started = << >>
    /\ asked = << >>
    /\ completed = << >>
    /\ lastText = NoText
    /\ nav = FRESH
    /\ nUser = 0

\* Any of the history files, the key set or not.
Init == InitWith(HistoryFiles)

\* The short history file.
InitShort == InitWith({SHORT_FILE})

\* ------------------------------------------------------------------ messages and output
\* `busy` notes whether a run was in progress when the message was posted.
Submitted(v) == [type |-> "Submitted", value |-> v, busy |-> sessions # {}]

Changed(v) == [type |-> "Changed", value |-> v, busy |-> sessions # {}]

\* Assigning the input's value posts Input.Changed when the value changes.
SetValue(q, old, new) == IF new # old THEN Append(q, Changed(new)) ELSE q

\* One output.write(...) of handler `hid`.
Ev(kind, hid, text, code) == [kind |-> kind, hid |-> hid, text |-> text, code |-> code]

\* Mutant: the handler starts its run without awaiting it.
DispatcherFreeAlways(msg) == TRUE

\* Mutant: a built-in line, like a change of the input, is handled at once,
\* whatever is running.
DispatcherFreeForBuiltIn(msg) ==
    \/ sessions = {}
    \/ msg.type = "Changed"
    \/ /\ msg.type = "Submitted"
       /\ strip(msg.value) # EMPTY
       /\ Classify(strip(msg.value)).run = "run_command"
       /\ BuiltIn(strip(msg.value)) # "external"

\* The app handles one message at a time: the next one is handled when the
\* handler of the one before, with all it awaits, has returned.
DispatcherFree(msg) == sessions = {}

NextHid == Len(started) + 1

\* ------------------------------------------------------------------ the user
\* Typing changes the input's text.
Type(texts, budget) ==
    /\ ~exited
    /\ nUser < budget
    /\ \E text \in texts :
          /\ text # value
          /\ value' = text
          /\ queue' = Append(queue, Changed(text))
    /\ nUser' = nUser + 1
    /\ UNCHANGED << history, history_index, nav, listVars, cwd, api_key, output,
                    sessions, exited, logVars, imported, asked >>

\* Enter posts Input.Submitted with the input's text.
Enter(budget) ==
    /\ ~exited
    /\ nUser < budget
    /\ queue' = Append(queue, Submitted(value))
    /\ nUser' = nUser + 1
    /\ UNCHANGED << inputVars, listVars, cwd, api_key, output, sessions, exited,
                    logVars, imported, asked >>

\* on_key, event.key == "up"
KeyUp(budget) ==
    /\ ~exited
    /\ nUser < budget
    /\ IF history # << >> /\ history_index < Len(history) - 1
       THEN /\ history_index' = history_index + 1
            /\ value' = Recalled(history, history_index')
            /\ queue' = SetValue(queue, value, value')
       ELSE UNCHANGED << history_index, value, queue >>
    /\ nav' = IF history = << >> THEN nav
              ELSE IF history_index = -1 THEN [phase |-> "older", k |-> 1, j |-> 0]
              ELSE IF nav.phase = "older" THEN [nav EXCEPT !.k = @ + 1]
              ELSE [nav EXCEPT !.phase = "mixed"]
    /\ nUser' = nUser + 1
    /\ UNCHANGED << history, listVars, cwd, api_key, output, sessions, exited,
                    logVars, imported, asked >>

\* on_key, event.key == "down"
KeyDown(budget) ==
    /\ ~exited
    /\ nUser < budget
    /\ IF history_index > 0
       THEN /\ history_index' = history_index - 1
            /\ value' = Recalled(history, history_index')
            /\ queue' = SetValue(queue, value, value')
       ELSE IF history_index = 0
       THEN /\ history_index' = -1
            /\ value' = EMPTY
            /\ queue' = SetValue(queue, value, value')
       ELSE UNCHANGED << history_index, value, queue >>
    /\ nav' = IF nav.phase \in {"older", "newer"}
              THEN [nav EXCEPT !.phase = "newer", !.j = @ + 1]
              ELSE nav
    /\ nUser' = nUser + 1
    /\ UNCHANGED << history, listVars, cwd, api_key, output, sessions, exited,
                    logVars, imported, asked >>

\* ------------------------------------------------------------------ on_input_changed
DeliverChanged ==
    /\ ~exited
    /\ queue # << >>
    /\ Head(queue).type = "Changed"
    /\ DispatcherFree(Head(queue))
    /\ LET r == update_suggestions(Head(queue).value, history, current_suggestions)
       IN  /\ suggestions' = r.items
           /\ visible' = r.visible
           /\ current_suggestions' = r.current
    /\ lastText' = Head(queue).value
    /\ queue' = Tail(queue)
    /\ UNCHANGED << inputVars, cwd, api_key, output, sessions, exited, logVars,
                    imported, asked, nUser >>

\* ------------------------------------------------------------------ on_input_submitted
\* event.input.history.append(command)
Record(hist, command) == Append(hist, command)

\* Mutant: the cursor is left where it was.
ResetIndexForgotten(index) == index

\* event.input.history_index = -1
ResetIndex(index) == -1

\* self.query_one("#suggestions").remove_class("visible")
HideSuggestions(shown) == FALSE

\* The end of the handler, for every non-empty command: clear the input, append
\* to the history, reset the cursor, hide the suggestions.
Finish(command, q, hid, kind, returncode) ==
    /\ value' = EMPTY
    /\ queue' = SetValue(q, value, EMPTY)
    /\ history' = Record(history, command)
    /\ history_index' = ResetIndex(history_index)
    /\ visible' = HideSuggestions(visible)
    /\ nav' = FRESH
    /\ completed' = Append(completed, [command |-> command, hid |-> hid, kind |-> kind,
                                        code |-> returncode, index |-> history_index,
                                        shown |-> visible])

\* The head of the queue is a submission the app may handle now.
CanDispatch ==
    /\ ~exited
    /\ queue # << >>
    /\ Head(queue).type = "Submitted"
    /\ DispatcherFree(Head(queue))

Command == strip(Head(queue).value)

Start(run, arg) ==
    Append(started, [raw |-> Head(queue).value, run |-> run, arg |-> arg,
                     waited |-> Head(queue).busy, idle |-> sessions = {}])

\* if command: ... a line that is empty after stripping is dropped.
DispatchEmpty ==
    /\ CanDispatch
    /\ Command = EMPTY
    /\ queue' = Tail(queue)
    /\ started' = Start("empty", EMPTY)
    /\ completed' = Append(completed, [command |-> EMPTY, hid |-> NextHid,
                                        kind |-> "empty", code |-> 0,
                                        index |-> history_index, shown |-> visible])
    /\ UNCHANGED << inputVars, listVars, cwd, api_key, output, sessions, exited,
                    imported, asked, nUser >>

\* "?" or "/ask " with nothing after it: nothing is run.
DispatchNone ==
    /\ CanDispatch
    /\ Command # EMPTY
    /\ Classify(Command).run = "none"
    /\ started' = Start("none", EMPTY)
    /\ Finish(Command, Tail(queue), NextHid, "none", 0)
    /\ UNCHANGED << suggestions, current_suggestions, lastText, cwd, api_key, output,
                    sessions, exited, imported, asked, nUser >>

\* ------------------------------------------------------------------ ask_ai
AiHeader(hid, query) ==
    LET quick == get_quick_suggestion(query)
    IN  << Ev("ai_header", hid, EMPTY, 0), Ev("question", hid, query, 0) >>
        \o (IF quick # NoQuick
            THEN << Ev("quick_header", hid, EMPTY, 0), Ev("quick", hid, quick, 0),
                    Ev("asking", hid, EMPTY, 0) >>
            ELSE << >>)
        \o << Ev("indent", hid, EMPTY, 0) >>

\* for i, line in enumerate(chunk.split('\n')): a line break before every line
\* but the first, then the line if it is not empty.
RECURSIVE LineEvents(_, _, _)
LineEvents(hid, lines, i) ==
    IF i > Len(lines) THEN << >>
    ELSE (IF i > 1 THEN << Ev("newline", hid, EMPTY, 0) >> ELSE << >>)
         \o (IF lines[i] # EMPTY THEN << Ev("fragment", hid, lines[i], 0) >> ELSE << >>)
         \o LineEvents(hid, lines, i + 1)

ChunkEvents(hid, chunk) == LineEvents(hid, split(chunk, "\n"), 1)

\* await self.ask_ai(query), up to the first chunk it waits for.
DispatchAi ==
    /\ CanDispatch
    /\ Command # EMPTY
    /\ Classify(Command).run = "ask_ai"
    /\ LET query == Classify(Command).arg
       IN  /\ started' = Start("ask_ai", query)
           /\ output' = output \o AiHeader(NextHid, query)
           /\ \E response \in Responses :
                 /\ sessions' = sessions \cup
                       { [hid |-> NextHid, kind |-> "Assistant", command |-> Command,
                          arg |-> query, todo |-> ask(api_key, response), nlines |-> 0] }
                 /\ asked' = Append(asked,
                       [hid |-> NextHid, question |-> query, key |-> api_key,
                        requested |-> Requested(api_key),
                        response |-> IF Requested(api_key) THEN response ELSE NoResponse,
                        chunks |-> ask(api_key, response)])
    /\ queue' = Tail(queue)
    /\ UNCHANGED << inputVars, listVars, cwd, api_key, exited, completed, imported,
                    nUser >>

\* async for chunk in self.ai.ask(query): one chunk arrives and is written.
AiChunk ==
    /\ ~exited
    /\ \E s \in sessions :
          /\ s.kind = "Assistant"
          /\ s.todo # << >>
          /\ output' = output \o ChunkEvents(s.hid, Head(s.todo))
          /\ sessions' = (sessions \ {s}) \cup { [s EXCEPT !.todo = Tail(@)] }
    /\ UNCHANGED << inputVars, listVars, cwd, api_key, queue, exited, logVars,
                    imported, asked, nUser >>

\* The stream ends: ask_ai returns and the handler finishes.
AiEnd ==
    /\ ~exited
    /\ \E s \in sessions :
          /\ s.kind = "Assistant"
          /\ s.todo = << >>
          /\ output' = Append(output, Ev("blank", s.hid, EMPTY, 0))
          /\ sessions' = sessions \ {s}
          /\ Finish(s.command, queue, s.hid, s.kind, 0)
    /\ UNCHANGED << suggestions, current_suggestions, lastText, cwd, api_key, exited,
                    started, imported, asked, nUser >>

\* ------------------------------------------------------------------ run_command
CommandHeader(hid, command) ==
    << Ev("cwd", hid, cwd, 0), Ev("command", hid, command, 0) >>

IsCommand(kind) ==
    /\ CanDispatch
    /\ Command # EMPTY
    /\ Classify(Command).run = "run_command"
    /\ BuiltIn(Command) = kind

\* Mutant: self.cwd is set to the path before os.chdir is tried.
DispatchCdSetsCwdFirst ==
    /\ IsCommand("cd")
    /\ LET path == expanduser(strip(from(Command, 3)))
       IN  /\ started' = Start("cd", path)
           /\ cwd' = path
           /\ IF chdir_ok(path)
              THEN output' = output \o CommandHeader(NextHid, Command)
                                    \o << Ev("changed", NextHid, path, 0) >>
              ELSE output' = output \o CommandHeader(NextHid, Command)
                                    \o << Ev("error", NextHid, path, 0) >>
    /\ Finish(Command, Tail(queue), NextHid, "cd", 0)
    /\ UNCHANGED << suggestions, current_suggestions, lastText, api_key, sessions,
                    exited, imported, asked, nUser >>

\* cd <path>
DispatchCd ==
    /\ IsCommand("cd")
    /\ LET path == expanduser(strip(from(Command, 3)))
       IN  /\ started' = Start("cd", path)
           /\ IF chdir_ok(path)
              THEN /\ cwd' = path
                   /\ output' = output \o CommandHeader(NextHid, Command)
                                       \o << Ev("changed", NextHid, path, 0) >>
              ELSE /\ cwd' = cwd
                   /\ output' = output \o CommandHeader(NextHid, Command)
                                       \o << Ev("error", NextHid, path, 0) >>
    /\ Finish(Command, Tail(queue), NextHid, "cd", 0)
    /\ UNCHANGED << suggestions, current_suggestions, lastText, api_key, sessions,
                    exited, imported, asked, nUser >>

\* clear
DispatchClear ==
    /\ IsCommand("clear")
    /\ started' = Start("clear", EMPTY)
    /\ output' = << >>
    /\ Finish(Command, Tail(queue), NextHid, "clear", 0)
    /\ UNCHANGED << suggestions, current_suggestions, lastText, cwd, api_key, sessions,
                    exited, imported, asked, nUser >>

\* exit, quit
DispatchExit ==
    /\ IsCommand("exit")
    /\ started' = Start("exit", EMPTY)
    /\ output' = output \o CommandHeader(NextHid, Command)
    /\ exited' = TRUE
    /\ Finish(Command, Tail(queue), NextHid, "exit", 0)
    /\ UNCHANGED << suggestions, current_suggestions, lastText, cwd, api_key, sessions,
                    imported, asked, nUser >>

\* subprocess.Popen(command, shell=True, ...) succeeds: the run begins.
DispatchSpawn ==
    /\ IsCommand("external")
    /\ started' = Start("external", Command)
    /\ output' = output \o CommandHeader(NextHid, Command)
    /\ sessions' = sessions \cup
          { [hid |-> NextHid, kind |-> "Process", command |-> Command,
             arg |-> Command, todo |-> << >>, nlines |-> 0] }
    /\ queue' = Tail(queue)
    /\ UNCHANGED << inputVars, listVars, cwd, api_key, exited, completed, imported, asked,
                    nUser >>

\* subprocess.Popen raises: the error is written and the handler finishes.
DispatchSpawnFails ==
    /\ IsCommand("external")
    /\ started' = Start("spawn_failed", Command)
    /\ output' = output \o CommandHeader(NextHid, Command)
                        \o << Ev("error", NextHid, Command, 0) >>
    /\ Finish(Command, Tail(queue), NextHid, "spawn_failed", 0)
    /\ UNCHANGED << suggestions, current_suggestions, lastText, cwd, api_key, sessions,
                    exited, imported, asked, nUser >>

\* for line in iter(process.stdout.readline, ''): one line is read and written.
ProcLine ==
    /\ ~exited
    /\ \E s \in sessions :
          /\ s.kind = "Process"
          /\ s.nlines < MaxChildLines
          /\ \E line \in ChildLines :
                output' = Append(output, Ev("text", s.hid, rstrip(line), 0))
          /\ sessions' = (sessions \ {s}) \cup { [s EXCEPT !.nlines = @ + 1] }
    /\ UNCHANGED << inputVars, listVars, cwd, api_key, queue, exited, logVars,
                    imported, asked, nUser >>

\* Mutant: the exit code is written whatever it is.
ExitEventsAlways(hid, returncode) == << Ev("status", hid, EMPTY, returncode) >>

\* if process.returncode != 0: write the exit code
ExitEvents(hid, returncode) ==
    IF returncode # 0 THEN << Ev("status", hid, EMPTY, returncode) >> ELSE << >>

\* End of the child's output: process.wait(), the exit code, the handler finishes.
ProcExit ==
    /\ ~exited
    /\ \E s \in sessions :
          /\ s.kind = "Process"
          /\ \E returncode \in ExitCodes :
                /\ output' = output \o ExitEvents(s.hid, returncode)
                /\ Finish(s.command, queue, s.hid, s.kind, returncode)
          /\ sessions' = sessions \ {s}
    /\ UNCHANGED << suggestions, current_suggestions, lastText, cwd, api_key, exited,
                    started, imported, asked, nUser >>

\* ------------------------------------------------------------------ specifications
\* The application: the user types, recalls and submits; the app handles its
\* messages one at a time; runs make progress.
NextApp(lines, budget) ==
    \/ Type(lines, budget)
    \/ Enter(budget)
    \/ KeyUp(budget)
    \/ KeyDown(budget)
    \/ DeliverChanged
    \/ DispatchEmpty
    \/ DispatchNone
    \/ DispatchAi
    \/ AiChunk
    \/ AiEnd
    \/ DispatchCd
    \/ DispatchClear
    \/ DispatchExit
    \/ DispatchSpawn
    \/ DispatchSpawnFails
    \/ ProcLine
    \/ ProcExit

\* Several submissions, of one line of each kind.
Next == NextApp(DispatchLines, MaxUser)

Spec == InitShort /\ [][Next]_vars

\* One submission, of any line, over any imported history.
NextSubmit == NextApp(Lines, MaxSubmitUser)

SpecSubmit == Init /\ [][NextSubmit]_vars

\* Questions to the assistant: the AI forms, and `clear` after them.
AskLines == { L_QUESTION, L_AI, L_ASK, L_AI_WORDS, L_AI_TWO, L_CLEAR }

NextAsk ==
    \/ Type(AskLines, MaxAsk)
    \/ Enter(MaxAsk)
    \/ DeliverChanged
    \/ DispatchEmpty
    \/ DispatchNone
    \/ DispatchAi
    \/ AiChunk
    \/ AiEnd
    \/ DispatchClear

SpecAsk == InitShort /\ [][NextAsk]_vars

\* Changes of directory: to the home directory, to directories that do not
\* exist, and a blank line.
CdLines == { L_CD_HOME, L_CD_BAD, L_CD_SUB, L_BLANK }

NextCd ==
    \/ Type(CdLines, MaxCd)
    \/ Enter(MaxCd)
    \/ DeliverChanged
    \/ DispatchEmpty
    \/ DispatchCd

SpecCd == InitShort /\ [][NextCd]_vars

\* History recall alone: Up and Down on an imported history.
NextRecall ==
    \/ KeyUp(MaxRecall)
    \/ KeyDown(MaxRecall)
    \/ DeliverChanged

SpecRecall == Init /\ [][NextRecall]_vars

\* The suggestion matcher alone: typing over an imported history.
NextMatch ==
    \/ Type(MatchTexts, MaxMatch)
    \/ DeliverChanged

SpecMatch == Init /\ [][NextMatch]_vars

\* ------------------------------------------------------------------ claims
Last(s) == s[Len(s)]

\* The handlers that start a run, and the built-in ones.
RunKinds == {"ask_ai", "external"}

BuiltInKinds == {"cd", "clear", "exit"}

\* A line whose stripped text is cd <path>, clear, exit or quit.
IsBuiltInLine(line) ==
    LET c == strip(line)
    IN  startswith(c, S_CD) \/ c = S_CLEAR \/ c = S_EXIT \/ c = S_QUIT

\* C1: at most one Session is active at any time, and the run for an AiQuery
\* or ShellCommand line is started only when no earlier Session is still
\* active, also for lines submitted while an earlier run was in progress.
C1_OneSessionAtATime ==
    /\ Cardinality(sessions) <= 1
    /\ \A i \in DOMAIN started : started[i].run \in RunKinds => started[i].idle

\* C1 witness: a line submitted while a run was in progress has started its
\* own run, after the earlier one resolved.
C1_LaterRunStartedAfterEarlier ==
    \E i \in DOMAIN started :
        /\ i > 1
        /\ started[i].run \in RunKinds
        /\ started[i].waited
        /\ started[i].idle
        /\ \E s \in sessions : s.hid = i

\* C2 as stated: a built-in line is executed immediately, so none is ever
\* waiting in the queue while a Session is active.
C2_BuiltInNeverWaits ==
    \A i \in DOMAIN queue :
        (queue[i].type = "Submitted" /\ IsBuiltInLine(queue[i].value)) => sessions = {}

\* C2 amended: built-in lines are not exempt; a built-in handler starts only
\* when no Session is active, like the handler of any other line.
C2_BuiltInStartsWhenIdle ==
    \A i \in DOMAIN started : started[i].run \in BuiltInKinds => started[i].idle

\* C2 witness: a built-in submitted while a run was in progress was executed
\* once that run had resolved.
C2_BuiltInWaitedForSession ==
    \E i \in DOMAIN started :
        /\ started[i].run \in BuiltInKinds
        /\ started[i].waited
        /\ started[i].idle
        /\ \E j \in DOMAIN completed : completed[j].hid < i /\ completed[j].kind \in {"Assistant", "Process"}

\* C3: on a non-empty history, K presses of Up from a fresh cursor recall the
\* K-th most recent entry, or the oldest once K exceeds the size; the presses
\* of Down that follow go back one entry each and end with empty text and the
\* cursor not recalling, where further presses change nothing.
C3_RecallRetraces ==
    LET n == Len(history)
        m == Min(nav.k, n)
    IN  /\ nav.phase = "older" =>
              /\ history_index = m - 1
              /\ value = history[n - m + 1]
        /\ nav.phase = "newer" =>
              IF nav.j < m
              THEN /\ history_index = m - nav.j - 1
                   /\ value = history[n - (m - nav.j) + 1]
              ELSE /\ history_index = -1
                   /\ value = EMPTY

\* C3 witness: more presses of Up than the history has entries, then Down all
\* the way back, and once more.
C3_PastOldestAndBack ==
    /\ Len(history) >= 2
    /\ nav.phase = "newer"
    /\ nav.k > Len(history)
    /\ nav.j > Len(history)
    /\ history_index = -1

\* The commands of the handlers that have returned, blank submissions left out.
RecordedCommands ==
    LET done == SelectSeq(completed, LAMBDA e : e.command # EMPTY)
    IN  [i \in DOMAIN done |-> done[i].command]

\* C4 as stated: in every reachable state the history holds at most 500
\* entries.
C4_AtMost500Entries == Len(history) <= HISTORY_IMPORT_LINES

\* C4 amended: the import yields at most 500 entries; after it the history is
\* the imported entries followed by every recorded line in insertion order,
\* none dropped, so it grows by one with each recorded line.
C4_ImportBoundedThenGrows ==
    /\ Len(imported) <= HISTORY_IMPORT_LINES
    /\ history = imported \o RecordedCommands

\* C4 witness: a line recorded on top of a full import of 500 entries.
C4_GrownPastTheImport ==
    /\ Len(imported) = HISTORY_IMPORT_LINES
    /\ Len(history) = HISTORY_IMPORT_LINES + 1
    /\ Last(history) = Last(completed).command

\* C5: the suggestions shown never hold the same string twice.
C5_NoDuplicateSuggestion ==
    \A i, j \in DOMAIN suggestions : i # j => suggestions[i] # suggestions[j]

\* text.lower() in candidate.lower()
MatchesText(candidate, text) == contains(lower(candidate), lower(text))

\* The catalog entries that match, in catalog order.
CatalogCandidates(text) == SelectSeq(ALL_COMMANDS, LAMBDA cmd : MatchesText(cmd, text))

\* The matching entries among the 50 most recent of the history, most recent
\* first.
HistoryCandidates(text) ==
    SelectSeq(reversed(last(history, HISTORY_SEARCH)), LAMBDA cmd : MatchesText(cmd, text))

\* seq without the elements at the positions outside keep.
RECURSIVE Restrict(_, _)
Restrict(seq, keep) ==
    IF seq = << >> THEN << >>
    ELSE Restrict(SubSeq(seq, 1, Len(seq) - 1), keep)
         \o (IF Len(seq) \in keep THEN << Last(seq) >> ELSE << >>)

\* The history candidates that are not in the catalog matches nor earlier
\* among the history candidates.
FreshHistoryCandidates(text) ==
    LET cat == CatalogCandidates(text)
        hist == HistoryCandidates(text)
    IN  Restrict(hist, { i \in DOMAIN hist :
                           /\ ~member(cat, hist[i])
                           /\ \A j \in 1..(i - 1) : hist[j] # hist[i] })

\* C6 as stated: after a match on a text, the suggestions are the first 8 of
\* the catalog matches followed by the matching entries among the 50 most
\* recent history entries; none for an empty text or one beginning with "?".
C6_CatalogThenHistory ==
    lastText # NoText =>
        suggestions =
            IF lastText = EMPTY \/ lastText[1] = "?" THEN << >>
            ELSE first(CatalogCandidates(lastText) \o HistoryCandidates(lastText),
                       MAX_SUGGESTIONS)

\* C6 amended: as stated, except that a history entry is left out when it is
\* already among the catalog matches or the history entries before it.
C6_CatalogThenFreshHistory ==
    lastText # NoText =>
        suggestions =
            IF lastText = EMPTY \/ lastText[1] = "?" THEN << >>
            ELSE first(CatalogCandidates(lastText) \o FreshHistoryCandidates(lastText),
                       MAX_SUGGESTIONS)

\* C6 witness: seven catalog matches, then the more recent of two matching
\* history entries; the older one is the ninth and is cut.
C6_CappedAtEight ==
    /\ lastText = T_DO
    /\ Len(suggestions) = MAX_SUGGESTIONS
    /\ suggestions[MAX_SUGGESTIONS] = H_SUDO2
    /\ member(history, H_SUDO1)

\* C7: when the handler of a submitted line returns, the line (stripped) is
\* the newest history entry, the cursor is not recalling and the suggestion
\* list is hidden, whatever the line ran and however that ended; for a line
\* that is blank the history, the cursor and the list stay as they were.
C7_SubmissionSideEffects ==
    [][ Len(completed') = Len(completed) + 1 =>
          LET done == Last(completed')
              line == strip(started'[done.hid].raw)
          IN  IF line = EMPTY
              THEN UNCHANGED << history, history_index, visible >>
              ELSE /\ history' = Append(history, line)
                   /\ history_index' = -1
                   /\ visible' = FALSE ]_vars

\* C7 witness: a handler returned that found the cursor recalling and the
\* list shown; its line is now the newest entry.
C7_CursorAndListReset ==
    /\ completed # << >>
    /\ Last(completed).index >= 0
    /\ Last(completed).shown
    /\ Last(history) = Last(completed).command
    /\ history_index = -1
    /\ ~visible

\* A line that starts with "?" or, in any case, with "/ask ".
HasAiPrefix(line) == startswith(line, S_QUESTION) \/ startswith(lower(line), S_ASK)

\* What follows the prefix, stripped.
AiRemainder(line) ==
    strip(from(line, IF startswith(line, S_QUESTION) THEN 1 ELSE Len(S_ASK)))

\* C8: a submitted line with the AI prefix and a non-empty remainder is
\* handled by asking the assistant exactly the stripped remainder; no command
\* and no built-in is run for it.
C8_AiQueryAsksRemainder ==
    \A i \in DOMAIN started :
        LET line == strip(started[i].raw)
        IN  (HasAiPrefix(line) /\ AiRemainder(line) # EMPTY) =>
                /\ started[i].run = "ask_ai"
                /\ started[i].arg = AiRemainder(line)
                /\ \A s \in sessions :
                      s.hid = i => s.kind = "Assistant" /\ s.arg = AiRemainder(line)
                /\ \A k \in DOMAIN output :
                      output[k].hid = i => output[k].kind \notin {"cwd", "command"}

\* C8 witness: "/ASK git log" is being answered by the assistant, asked
\* "git log".
C8_UpperCaseAskRuns ==
    \E i \in DOMAIN started :
        /\ started[i].raw = L_ASK
        /\ started[i].run = "ask_ai"
        /\ \E s \in sessions : s.hid = i /\ s.arg = <<"g","i","t"," ","l","o","g">>

\* What a line that is not an AiQuery must run: a built-in exactly for
\* cd <path>, clear, exit and quit, else the whole line as a command.
RunsAsBuiltInOrCommand(entry) ==
    LET line == strip(entry.raw)
    IN  IF startswith(line, S_CD) THEN entry.run = "cd"
        ELSE IF line = S_CLEAR THEN entry.run = "clear"
        ELSE IF line = S_EXIT \/ line = S_QUIT THEN entry.run = "exit"
        ELSE entry.run \in {"external", "spawn_failed"} /\ entry.arg = line

\* C9 as stated: every submitted non-empty line that is not an AiQuery runs
\* as a built-in or as a shell command.
C9_BuiltInOrShell ==
    \A i \in DOMAIN started :
        (strip(started[i].raw) # EMPTY /\ started[i].run # "ask_ai") =>
            RunsAsBuiltInOrCommand(started[i])

\* C9 amended: as stated, except that a line with the AI prefix and an empty
\* remainder ("?" alone) runs nothing.
C9_BuiltInOrShellOrNothing ==
    \A i \in DOMAIN started :
        LET line == strip(started[i].raw)
        IN  (line # EMPTY /\ started[i].run # "ask_ai") =>
                IF HasAiPrefix(line)
                THEN AiRemainder(line) = EMPTY /\ started[i].run = "none"
                ELSE RunsAsBuiltInOrCommand(started[i])

\* C9 witness: "CD ~" has run as a shell command, not as the built-in.
C9_UpperCaseCdIsShell ==
    \E i \in DOMAIN started :
        /\ started[i].raw = L_CD_UPPER
        /\ started[i].run = "external"
        /\ started[i].arg = L_CD_UPPER
        /\ cwd = ROOT

\* The positions in the output of the events of kind `kind` of handler `hid`.
EventsOf(hid, kind) ==
    { k \in DOMAIN output : output[k].hid = hid /\ output[k].kind = kind }

StillToArrive(call) ==
    \A s \in sessions :
        s.hid = call.hid => \E k \in 0..Len(call.chunks) : s.todo = from(call.chunks, k)

\* C11 as stated: without a key, ask yields exactly one fragment, for every
\* question, and issues no request.
C11_OneFragmentNoRequest ==
    \A i \in DOMAIN asked :
        ~asked[i].key => Len(asked[i].chunks) = 1 /\ ~asked[i].requested

\* C11 amended: without a key, ask yields exactly four fragments, for every
\* question, which together are the text on how to set the key, and then
\* ends; no request is issued.
C11_FourFragmentsNoRequest ==
    \A i \in DOMAIN asked :
        ~asked[i].key =>
            /\ Len(asked[i].chunks) = 4
            /\ asked[i].chunks = NOT_CONFIGURED
            /\ ~asked[i].requested
            /\ asked[i].response = NoResponse
            /\ StillToArrive(asked[i])

\* C11 witness: a question asked without a key; the four fragments have
\* arrived and the handler has returned.
C11_AskedWithoutKey ==
    \E i \in DOMAIN asked :
        /\ ~asked[i].key
        /\ Len(asked[i].chunks) = 4
        /\ \E j \in DOMAIN completed :
              completed[j].hid = asked[i].hid /\ completed[j].kind = "Assistant"
        /\ Cardinality(EventsOf(asked[i].hid, "fragment")) = 4

\* The events written by the step, those of `kind`.
Written(kind) ==
    { k \in (Len(output) + 1)..Len(output') : output'[k].kind = kind }

\* The step is the handling of a `cd <path>` whose change of directory fails.
CdFails ==
    /\ Len(started') = Len(started) + 1
    /\ Last(started').run = "cd"
    /\ ~chdir_ok(Last(started').arg)

\* C12: a `cd <path>` whose change of directory fails leaves the working
\* directory as it was, writes exactly one error event, which carries the
\* failure, starts no Session, and its handler returns with the app running
\* and no Session in the way of the next submission.
C12_FailedCdChangesNothing ==
    [][CdFails =>
        /\ cwd' = cwd
        /\ Len(output') >= Len(output)
        /\ SubSeq(output', 1, Len(output)) = output
        /\ Cardinality(Written("error")) = 1
        /\ \A k \in Written("error") :
              output'[k].hid = Len(started') /\ output'[k].text = Last(started').arg
        /\ Written("changed") = {}
        /\ sessions' = sessions
        /\ sessions' = {}
        /\ ~exited'
        /\ Len(completed') = Len(completed) + 1
        /\ Last(completed').hid = Len(started')]_vars

\* C12 witness: a `cd` to a directory that does not exist failed, from the
\* home directory or before going there, and the next submission was handled.
C12_NextHandledAfterFailedCd ==
    \E i \in DOMAIN started :
        /\ started[i].run = "cd"
        /\ ~chdir_ok(started[i].arg)
        /\ EventsOf(i, "error") # {}
        /\ i < Len(started)
        /\ \E j \in DOMAIN completed : completed[j].hid = i + 1
        /\ sessions = {}

\* The words of a quick-answer key.
WordsOf(key) == { split(key, " ")[i] : i \in DOMAIN split(key, " ") }

\* The quick answers whose key is in the question, in any case, or whose
\* key's words are all in it.
QuickAnswersFor(question) ==
    { i \in DOMAIN QUICK_SUGGESTIONS :
        \/ contains(lower(question), QUICK_SUGGESTIONS[i][1])
        \/ \A w \in WordsOf(QUICK_SUGGESTIONS[i][1]) : contains(lower(question), w) }

\* The same, worked out once for the questions of the lines submitted.
QuickAnswersOfQuestions ==
    [question \in { AiRemainder(strip(line)) : line \in Lines \cup AskLines } |->
        QuickAnswersFor(question)]

QuickAnswers(question) ==
    IF question \in DOMAIN QuickAnswersOfQuestions
    THEN QuickAnswersOfQuestions[question]
    ELSE QuickAnswersFor(question)

\* What the chunks of an answer write, one after the other.
RECURSIVE AnswerEvents(_, _)
AnswerEvents(hid, chunks) ==
    IF chunks = << >> THEN << >>
    ELSE ChunkEvents(hid, Head(chunks)) \o AnswerEvents(hid, Tail(chunks))

\* The part of the answer of handler `hid` that is in the output.
Streamed(hid) ==
    SelectSeq(output, LAMBDA e : e.hid = hid /\ e.kind \in {"fragment", "newline"})

\* The chunks handler `hid` still waits for.
ToArrive(hid) ==
    IF \E s \in sessions : s.hid = hid
    THEN (CHOOSE s \in sessions : s.hid = hid).todo
    ELSE << >>

\* C13: for a question that holds a quick-answer key, or every word of one,
\* the canned command of the (first) matching key is written once, before
\* every fragment of the assistant's answer, and the assistant is asked all
\* the same: its answer is streamed after the quick suggestion. (The events
\* of a query are in the output unless a later `clear` removed them.)
C13_QuickSuggestionBeforeStream ==
    \A i \in DOMAIN started :
        LET hits == QuickAnswers(started[i].arg)
            quick == EventsOf(i, "quick")
        IN  (started[i].run = "ask_ai" /\ hits # {} /\ EventsOf(i, "question") # {}) =>
                /\ Cardinality(quick) = 1
                /\ \A k \in quick :
                      /\ \E h \in hits :
                            /\ \A g \in hits : h <= g
                            /\ output[k].text = QUICK_SUGGESTIONS[h][2]
                      /\ \A t \in EventsOf(i, "fragment") \cup EventsOf(i, "newline") : k < t
                /\ \E j \in DOMAIN asked :
                      /\ asked[j].hid = i
                      /\ asked[j].question = started[i].arg
                      /\ Streamed(i) \o AnswerEvents(i, ToArrive(i))
                            = AnswerEvents(i, asked[j].chunks)

\* C13 witness: "log of GIT" was asked with the key set; the command for
\* `git log` is in the output, and after it the fragments of the answer.
C13_QuickThenAnswer ==
    \E i \in DOMAIN started :
        /\ started[i].raw = L_AI_WORDS
        /\ \E j \in DOMAIN asked : asked[j].hid = i /\ asked[j].requested
        /\ \E k \in EventsOf(i, "quick") :
              \E t \in EventsOf(i, "fragment") : k < t
        /\ \E j \in DOMAIN completed : completed[j].hid = i

\* The texts of the content deltas of a stream up to its end-of-stream
\* marker, in arrival order; every other frame, malformed or not, gives none.
RECURSIVE DeltaTexts(_)
DeltaTexts(lines) ==
    IF lines = << >> THEN << >>
    ELSE LET line == Head(lines)
         IN  IF line.data /\ line.payload = "done" THEN << >>
             ELSE IF line.data /\ line.payload = "delta"
                  THEN << line.text >> \o DeltaTexts(Tail(lines))
                  ELSE DeltaTexts(Tail(lines))

\* C14: in a stream with status 200 a frame whose payload is malformed (not
\* JSON, or JSON that is no event object) is skipped alone: the fragments
\* yielded are the texts of the content deltas before the end-of-stream
\* marker, all of them and in arrival order, and no error fragment.
C14_MalformedFrameSkipped ==
    \A i \in DOMAIN asked :
        LET response == asked[i].response
        IN  (asked[i].requested /\ response.failure = "none" /\ response.status = 200
               /\ response.ending = "eof") =>
                asked[i].chunks = DeltaTexts(response.lines)

====
